---- MODULE Spec2Model ----
(***************************************************************************)
(* A model of the zvc decoder (src/module/decoder.py) and of its helper    *)
(* functions (src/module/common.py).                                       *)
(*                                                                         *)
(* Tensors are modelled by their shape (channels, time length) and, where  *)
(* a claim is about values, by the value at one representative position.   *)
(* The batch axis is the same in every tensor of a call and is left out.   *)
(* A call of the tensor engine that raises is the empty sequence; a call   *)
(* that returns v is <<v>>.                                                *)
(***************************************************************************)
EXTENDS Integers, Sequences, FiniteSets, TLC

VARIABLES
    cfg,        \* the constructor arguments of the Decoder
    res,        \* the forward/decode call in progress and what it did
    res2,       \* the same call made a second time, with a fresh noise draw
    hooks,      \* per convolution: does it carry a WeightNorm hook
    lastFold,   \* the last remove_weight_norm call and its outcome
    mf,         \* match_features: the last call and its result
    f0st        \* compute_f0: the last call, the tracker runs and the result

vars == <<cfg, res, res2, hooks, lastFold, mf, f0st>>

(***************************************************************************)
(* Bounds of the model.                                                    *)
(***************************************************************************)
MaxStages == 2      \* upsampling stages of a Decoder
MaxStride == 2      \* deconv_strides entries are 1..MaxStride
MaxKernel == 3      \* deconv_kernel_sizes entries are 1..MaxKernel
MaxT == 3           \* time lengths of x, f0, amp and noise are 1..MaxT
MaxResKernel == 3   \* resblock_kernel_sizes entries are 1..MaxResKernel
MaxDil == 2         \* dilation rates are 1..MaxDil
MaxBlocks == 2      \* entries of resblock_kernel_sizes / resblock_dilation_rates
MaxVal == 1         \* tensor values at the representative position: 0..MaxVal
MaxGain == 1        \* noise_gain is 0..MaxGain
MaxDilLen == 1      \* dilation rates of one ResBlock
MaxDraw == 1        \* a draw of torch.randn is -MaxDraw..MaxDraw
NoiseMaxT == 2      \* time lengths in the specification of the noise path
MaxComp == 2        \* components of an embedding vector are 0..MaxComp
MaxLen == 2         \* timesteps of a source or reference sequence
MaxK == 2           \* k of match_features is 1..MaxK
MaxRows == 2        \* waveforms in a batch given to compute_f0
MaxFrames == 2      \* a waveform holds up to MaxFrames whole segments
MaxShift == 1       \* f0_min, f0_max, sample_rate differ from their defaults
                    \* by up to MaxShift steps
SmallSegment == 2   \* a segment_size other than the default

(***************************************************************************)
(* Program constants.                                                      *)
(***************************************************************************)
DefaultChannels == 256   \* input_channels / upsample_initial_channels default
DecodeNoiseChannels == 256   \* the channel count decode gives its noise
SmallChannels == 8       \* a second, non-default channel width
DefaultSampleRate == 16000
DefaultSegmentSize == 256
DefaultF0Min == 20
DefaultF0Max == 4096

Raised == <<>>

Min(a, b) == IF a <= b THEN a ELSE b

RECURSIVE Pow2(_)
Pow2(n) == IF n = 0 THEN 1 ELSE 2 * Pow2(n - 1)

RECURSIVE Product(_)
Product(s) == IF s = <<>> THEN 1 ELSE Head(s) * Product(Tail(s))

(* All sequences over S of length lo..hi *)
SeqsOf(S, lo, hi) == UNION {[1..n -> S] : n \in lo..hi}

(***************************************************************************)
(* Shapes and the tensor engine's broadcasting of an elementwise add.      *)
(***************************************************************************)
Bcast(a, b) ==
    IF a = b THEN <<a>>
    ELSE IF a = 1 THEN <<b>>
    ELSE IF b = 1 THEN <<a>>
    ELSE Raised

BcastShape(p, q) ==
    LET c == Bcast(p.c, q.c)
        t == Bcast(p.t, q.t)
    IN  IF c = Raised \/ t = Raised THEN Raised
        ELSE <<[c |-> c[1], t |-> t[1]]>>

(* out += t on a tensor: t must broadcast to the shape out already has *)
InPlaceAdd(out, t) == IF t = out \/ t = 1 THEN <<out>> ELSE Raised

(* nn.Conv1d, stride 1: output time length, or the engine's error *)
Conv1dLen(L, K, d, p) ==
    LET o == L + 2 * p - d * (K - 1)
    IN  IF o >= 1 THEN <<o>> ELSE Raised

(* nn.ConvTranspose1d(k, s, p): output time length, or the engine's error *)
ConvTranspose1dLen(L, k, s, p) ==
    LET o == (L - 1) * s - 2 * p + k
    IN  IF p < 0 \/ o < 1 THEN Raised ELSE <<o>>

get_padding(kernel_size, dilation) == ((kernel_size - 1) * dilation) \div 2

(***************************************************************************)
(* ResBlock.forward on a tensor of time length L.  The result carries the  *)
(* time length returned (or Raised), every convolution applied as          *)
(* <<length in, K, d, length out>> and every residual addition xt + x as   *)
(* <<length of xt, length of x>>.                                          *)
(***************************************************************************)
NoTrace == [out |-> Raised, convs |-> {}, adds |-> {}]

Join(t, r) ==
    [out |-> r.out, convs |-> t.convs \cup r.convs, adds |-> t.adds \cup r.adds]

(* one pass of the loop body: xt = c1(xt), xt = c2(xt), x = xt + x; the time
   lengths after c1 (a), after c2 (b) and after the addition (x) *)
PairLengths(L, K, d) ==
    LET p == get_padding(K, d)
        a == Conv1dLen(L, K, d, p)
        b == IF a = Raised THEN Raised ELSE Conv1dLen(a[1], K, d, p)
    IN  [a |-> a, b |-> b,
         x |-> IF b = Raised THEN Raised ELSE Bcast(b[1], L)]

PairTrace(L, K, d, pl) ==
    [out |-> pl.x,
     convs |-> {<<L, K, d, pl.a>>} \cup
               (IF pl.a = Raised THEN {} ELSE {<<pl.a[1], K, d, pl.b>>}),
     adds |-> IF pl.b = Raised THEN {} ELSE {<<pl.b[1], L>>}]

RECURSIVE ResBlockForward(_, _, _)
ResBlockLoop(L, K, dilation, pl) ==
    Join(PairTrace(L, K, Head(dilation), pl),
         IF pl.x = Raised THEN NoTrace
         ELSE ResBlockForward(pl.x[1], K, Tail(dilation)))

ResBlockForward(L, K, dilation) ==
    IF dilation = <<>> THEN [out |-> <<L>>, convs |-> {}, adds |-> {}]
    ELSE ResBlockLoop(L, K, dilation, PairLengths(L, K, Head(dilation)))

(* MRF.__init__: one ResBlock per pair of zip(kernel_sizes, dilation_rates) *)
MRFBlocks(kernel_sizes, dilation_rates) ==
    [i \in 1..Min(Len(kernel_sizes), Len(dilation_rates)) |->
        [k |-> kernel_sizes[i], d |-> dilation_rates[i]]]

(***************************************************************************)
(* MRF.forward: out = 0, then out += block(x) for every block.  acc is     *)
(* <<>> while out is still the integer 0, <<L>> once it is a tensor.  n    *)
(* counts the block outputs summed.                                        *)
(***************************************************************************)
JoinSum(r, m) ==
    [out |-> m.out, n |-> m.n, convs |-> r.convs \cup m.convs,
     adds |-> r.adds \cup m.adds]

RECURSIVE MRFSum(_, _, _, _)
MRFAdd(L, blocks, acc, n, r) ==
    LET sum == IF r.out = Raised THEN Raised
               ELSE IF acc = <<>> THEN r.out
               ELSE InPlaceAdd(acc[1], r.out[1])
    IN  JoinSum(r, IF sum = Raised
                   THEN [out |-> Raised, n |-> n, convs |-> {}, adds |-> {}]
                   ELSE MRFSum(L, Tail(blocks), sum, n + 1))

MRFSum(L, blocks, acc, n) ==
    IF blocks = <<>> THEN [out |-> acc, n |-> n, convs |-> {}, adds |-> {}]
    ELSE MRFAdd(L, blocks, acc, n,
                ResBlockForward(L, Head(blocks).k, Head(blocks).d))

MRFForward(L, blocks) == MRFSum(L, blocks, <<>>, 0)

(***************************************************************************)
(* Decoder.__init__: the upsampling stages are the pairs of                *)
(* zip(deconv_strides, deconv_kernel_sizes); num_kernels is the length of  *)
(* resblock_kernel_sizes.                                                  *)
(***************************************************************************)
NumStages(c) == Min(Len(c.deconv_strides), Len(c.deconv_kernel_sizes))

num_kernels(c) == Len(c.resblock_kernel_sizes)

UpPadding(k, s) == (k - s) \div 2

(* channels of the tensor that leaves stage i (i = 0: that enters stage 1) *)
StageChannels(c, i) == c.upsample_initial_channels \div Pow2(i)

(* x = up(x) of stage i on a tensor of shape h *)
UpLen(c, i, h) ==
    IF h.c # StageChannels(c, i - 1) THEN Raised
    ELSE ConvTranspose1dLen(h.t, c.deconv_kernel_sizes[i], c.deconv_strides[i],
                            UpPadding(c.deconv_kernel_sizes[i],
                                      c.deconv_strides[i]))

(***************************************************************************)
(* The cascade of Decoder.forward from stage i on, for a tensor of shape   *)
(* h: leaky_relu, up(x), MRF(x) / num_kernels.  stages records, per stage  *)
(* whose division was reached, how many block outputs were summed and the  *)
(* number the sum was divided by.                                          *)
(***************************************************************************)
NoCascade == [out |-> Raised, stages |-> <<>>, convs |-> {}, adds |-> {}]

JoinStage(m, st, r) ==
    [out |-> r.out, stages |-> st \o r.stages, convs |-> m.convs \cup r.convs,
     adds |-> m.adds \cup r.adds]

RECURSIVE Cascade(_, _, _)
(* m is what MRF(x) did.  0 / num_kernels (an MRF without blocks) is a
   Python number, which leaky_relu rejects; num_kernels = 0 is a
   ZeroDivisionError *)
CascadeDivide(c, i, m) ==
    IF m.out = Raised \/ num_kernels(c) = 0
    THEN JoinStage(m, <<>>, NoCascade)
    ELSE JoinStage(m, <<[n |-> m.n, div |-> num_kernels(c)]>>,
                   Cascade(c, i + 1,
                           [c |-> StageChannels(c, i), t |-> m.out[1]]))

CascadeMRF(c, i, u) ==
    IF u = Raised THEN NoCascade
    ELSE CascadeDivide(c, i,
            MRFForward(u[1], MRFBlocks(c.resblock_kernel_sizes,
                                       c.resblock_dilation_rates)))

Cascade(c, i, h) ==
    IF i > NumStages(c)
    THEN [out |-> <<h>>, stages |-> <<>>, convs |-> {}, adds |-> {}]
    ELSE CascadeMRF(c, i, UpLen(c, i, h))

(* torch.exp at the representative position, over the model's integers *)
Exp(s) == Pow2(s)

(***************************************************************************)
(* Decoder.forward(x, f0, amp, noise).  x has time length Tin and makes    *)
(* the encoder return mean mu and log-scale sigma; f0 and amp have time    *)
(* lengths Tf0 and Tamp and values f0 and amp (in).  noise is <<>> for     *)
(* None or <<[c, t, v]>>; draw is the value torch.randn_like produces if   *)
(* it is called.  The waveform's value is the term of everything it is     *)
(* computed from.                                                          *)
(***************************************************************************)
(* noise == None: torch.randn_like(sigma) *)
NoiseUsed(c, in, noise) ==
    IF noise = <<>>
    THEN [c |-> c.input_channels, t |-> in.Tin, v |-> in.draw]
    ELSE noise[1]

(* x = mu + torch.exp(sigma) * noise: the shape and the value *)
SampleShape(c, in, nz) ==
    BcastShape([c |-> c.input_channels, t |-> in.Tin],
               [c |-> nz.c, t |-> nz.t])

SampleValue(in, nz) == in.mu + Exp(in.sigma) * nz.v

(* x = self.pre(x) + f0 + amp; self.pre is a convolution of input_channels
   channels with kernel 7 and padding 3 *)
Conditioned(c, in, zs) ==
    LET pre == IF zs = Raised \/ zs[1].c # c.input_channels
                  \/ Conv1dLen(zs[1].t, 7, 1, 3) = Raised
               THEN Raised
               ELSE <<[c |-> c.upsample_initial_channels,
                       t |-> Conv1dLen(zs[1].t, 7, 1, 3)[1]]>>
        h1  == IF pre = Raised THEN Raised
               ELSE BcastShape(pre[1], [c |-> c.input_channels, t |-> in.Tf0])
    IN  IF h1 = Raised THEN Raised
        ELSE BcastShape(h1[1], [c |-> c.input_channels, t |-> in.Tamp])

(* self.post: a convolution of the last stage's channels with kernel 7 and
   padding 3, then tanh and squeeze(1) *)
PostLen(c, cas) ==
    IF cas.out = Raised \/ cas.out[1].c # StageChannels(c, NumStages(c))
    THEN Raised
    ELSE Conv1dLen(cas.out[1].t, 7, 1, 3)

ForwardResult(in, nz, zs, zv, cas, post) ==
    [Tin |-> in.Tin, Tf0 |-> in.Tf0, Tamp |-> in.Tamp, mu |-> in.mu,
     sigma |-> in.sigma, f0 |-> in.f0, amp |-> in.amp, draw |-> in.draw,
     noise |-> nz,
     z |-> IF zs = Raised THEN <<>> ELSE <<zv>>,
     done |-> post # Raised,
     out |-> post,
     wave |-> IF post = Raised THEN <<>>
              ELSE <<"tanh", zv, in.f0, in.amp, post[1]>>,
     stages |-> cas.stages, convs |-> cas.convs, adds |-> cas.adds]

ForwardPost(c, in, nz, zs, cas) ==
    ForwardResult(in, nz, zs, SampleValue(in, nz), cas, PostLen(c, cas))

ForwardCascade(c, in, nz, zs, h) ==
    ForwardPost(c, in, nz, zs,
                IF h = Raised THEN NoCascade ELSE Cascade(c, 1, h[1]))

ForwardSample(c, in, nz, zs) ==
    ForwardCascade(c, in, nz, zs, Conditioned(c, in, zs))

ForwardWithNoise(c, in, nz) == ForwardSample(c, in, nz, SampleShape(c, in, nz))

DecoderForward(c, in, noise) == ForwardWithNoise(c, in, NoiseUsed(c, in, noise))

(***************************************************************************)
(* Decoder.decode(x, f0, amp, noise_gain): the noise handed to forward is  *)
(* torch.randn(x.shape[0], 256, x.shape[2]) * noise_gain.                  *)
(***************************************************************************)
DecodeNoiseIgnoringGain(in, gain) ==
    [c |-> DecodeNoiseChannels, t |-> in.Tin, v |-> in.draw]

DecodeNoise(in, gain) ==
    [c |-> DecodeNoiseChannels, t |-> in.Tin, v |-> in.draw * gain]

DecoderDecode(c, in, gain) == DecoderForward(c, in, <<DecodeNoise(in, gain)>>)

(***************************************************************************)
(* The Decoder configurations and the call inputs of the two               *)
(* specifications of forward and decode: SpecShape varies the layer        *)
(* configuration and the time lengths, SpecNoise the channel widths and    *)
(* the values.                                                             *)
(***************************************************************************)
UpPairs == (1..MaxStride) \X (1..MaxKernel)

Config(ups, rks, rdr, ic, uic) ==
    [deconv_strides |-> [i \in 1..Len(ups) |-> ups[i][1]],
     deconv_kernel_sizes |-> [i \in 1..Len(ups) |-> ups[i][2]],
     resblock_kernel_sizes |-> rks,
     resblock_dilation_rates |-> rdr,
     input_channels |-> ic,
     upsample_initial_channels |-> uic]

DilLists == SeqsOf(1..MaxDil, 1, MaxDilLen)

ShapeConfigs ==
    {Config(ups, rks, rdr, DefaultChannels, DefaultChannels) :
        ups \in SeqsOf(UpPairs, 1, MaxStages),
        rks \in SeqsOf(1..MaxResKernel, 1, MaxBlocks),
        rdr \in SeqsOf(DilLists, 1, MaxBlocks)}

Widths == {DefaultChannels, SmallChannels}

NoiseConfigs ==
    {Config(<<<<s, s>>>>, <<MaxResKernel>>, <<<<1>>>>, ic, uic) :
        s \in 1..MaxStride, ic \in Widths, uic \in Widths}

(* the strides and kernels of the last default stage are out of the model's
   range; the widths are the defaults *)
DefaultConfig ==
    Config(<<<<MaxStride, MaxStride>>>>, <<MaxResKernel>>, <<<<1>>>>,
           DefaultChannels, DefaultChannels)

ShapeDom ==
    [T |-> 1..MaxT, V |-> {0}, F |-> {0}, D |-> {0}, G |-> 0..MaxGain,
     C |-> {DefaultChannels}]

NoiseDom ==
    [T |-> 1..NoiseMaxT, V |-> 0..MaxVal, F |-> {MaxVal},
     D |-> (0 - MaxDraw)..MaxDraw, G |-> 0..MaxGain, C |-> Widths]

Inputs(Tin, Tf0, Tamp, mu, sigma, f0v, ampv, draw) ==
    [Tin |-> Tin, Tf0 |-> Tf0, Tamp |-> Tamp, mu |-> mu, sigma |-> sigma,
     f0 |-> f0v, amp |-> ampv, draw |-> draw]

InputsOf(r) == Inputs(r.Tin, r.Tf0, r.Tamp, r.mu, r.sigma, r.f0, r.amp, r.draw)

NoRun ==
    ForwardResult(Inputs(0, 0, 0, 0, 0, 0, 0, 0), [c |-> 0, t |-> 0, v |-> 0],
                  Raised, 0, NoCascade, Raised)

NoCall == [kind |-> "none", gain |-> 0, arg |-> <<>>, run |-> NoRun]

NoFoldCall == [module |-> <<"none">>, raised |-> FALSE, before |-> <<>>]

NoMatchCall ==
    [source |-> <<>>, reference |-> <<>>, k |-> 0, alpha |-> 0,
     done |-> FALSE, raised |-> FALSE, num |-> <<>>]

NoF0Call ==
    [ndim |-> 0, rows |-> 0, len |-> 0, sample_rate |-> 0, segment_size |-> 0,
     f0_min |-> 0, f0_max |-> 0, done |-> FALSE, raised |-> FALSE,
     runs |-> <<>>, out |-> <<>>]

(* forward(x, f0, amp) and forward(x, f0, amp, noise) *)
Forward(dom) ==
    /\ res.kind = "none"
    /\ \E Tin \in dom.T, Tf0 \in dom.T, Tamp \in dom.T,
          mu \in dom.V, sigma \in dom.V, f0v \in dom.F, draw \in dom.D :
       \E noise \in {<<>>} \cup
                    {<<[c |-> nc, t |-> Tin, v |-> nv]>> :
                        nc \in dom.C, nv \in dom.D} :
        res' = [kind |-> "forward", gain |-> 0, arg |-> noise,
                run |-> DecoderForward(cfg,
                           Inputs(Tin, Tf0, Tamp, mu, sigma, f0v, 0, draw),
                           noise)]
    /\ UNCHANGED <<cfg, res2, hooks, lastFold, mf, f0st>>

(* decode(x, f0, amp, noise_gain) *)
Decode(dom) ==
    /\ res.kind = "none"
    /\ \E Tin \in dom.T, Tf0 \in dom.T, Tamp \in dom.T,
          mu \in dom.V, sigma \in dom.V, f0v \in dom.F, draw \in dom.D,
          gain \in dom.G :
        res' = [kind |-> "decode", gain |-> gain, arg |-> <<>>,
                run |-> DecoderDecode(cfg,
                           Inputs(Tin, Tf0, Tamp, mu, sigma, f0v, 0, draw),
                           gain)]
    /\ UNCHANGED <<cfg, res2, hooks, lastFold, mf, f0st>>

(* the caller makes the same call again, on the same model and the same
   inputs; the random generator gives another draw *)
Repeat(dom) ==
    /\ res.kind # "none"
    /\ res2.kind = "none"
    /\ \E draw \in dom.D :
        res2' = [res EXCEPT !.run =
            IF res.kind = "decode"
            THEN DecoderDecode(cfg, [InputsOf(res.run) EXCEPT !.draw = draw],
                               res.gain)
            ELSE DecoderForward(cfg, [InputsOf(res.run) EXCEPT !.draw = draw],
                                res.arg)]
    /\ UNCHANGED <<cfg, res, hooks, lastFold, mf, f0st>>

(* the caller takes the result *)
Return ==
    /\ res.kind # "none"
    /\ res' = NoCall
    /\ res2' = NoCall
    /\ UNCHANGED <<cfg, hooks, lastFold, mf, f0st>>

InitOf(configs) ==
    /\ cfg \in configs
    /\ res = NoCall
    /\ res2 = NoCall
    /\ hooks = <<>>
    /\ lastFold = NoFoldCall
    /\ mf = NoMatchCall
    /\ f0st = NoF0Call

InitShape == InitOf(ShapeConfigs)
NextShape == Forward(ShapeDom) \/ Decode(ShapeDom) \/ Return
SpecShape == InitShape /\ [][NextShape]_vars

InitNoise == InitOf(NoiseConfigs)
NextNoise == Forward(NoiseDom) \/ Decode(NoiseDom) \/ Repeat(NoiseDom) \/ Return
SpecNoise == InitNoise /\ [][NextNoise]_vars

(***************************************************************************)
(* Weight folding.  A convolution built with weight_norm carries a         *)
(* WeightNorm hook and the two parameters (direction, magnitude);          *)
(* torch's remove_weight_norm(module) folds them into one weight and takes *)
(* the hook away, and raises ValueError on a module that carries no such   *)
(* hook.  hooks[c] says whether convolution c carries the hook.            *)
(***************************************************************************)
BlockIds(c) ==
    {<<"block", i, j>> : i \in 1..NumStages(c),
        j \in 1..Len(MRFBlocks(c.resblock_kernel_sizes,
                               c.resblock_dilation_rates))}

Dilations(c, j) ==
    MRFBlocks(c.resblock_kernel_sizes, c.resblock_dilation_rates)[j].d

(* ResBlock.__init__: convs1 and convs2, one weight-normalized pair per
   dilation *)
BlockConvs(c, b) ==
    {<<n, b[2], b[3], k>> : n \in {"convs1", "convs2"},
        k \in 1..Len(Dilations(c, b[3]))}

UpConvs(c) == {<<"up", i>> : i \in 1..NumStages(c)}

(* the convolutions Decoder.__init__ wraps in weight_norm *)
WeightNormed(c) == UpConvs(c) \cup UNION {BlockConvs(c, b) : b \in BlockIds(c)}

(* self.pre and self.post are plain nn.Conv1d *)
PlainConvs == {<<"pre">>, <<"post">>}

AllConvs(c) == WeightNormed(c) \cup PlainConvs

FreshHooks(c) == [cv \in AllConvs(c) |-> cv \in WeightNormed(c)]

(* torch.nn.utils.remove_weight_norm(target) *)
TorchRemoveWeightNorm(h, target) ==
    IF target \in DOMAIN h /\ h[target]
    THEN [hooks |-> [h EXCEPT ![target] = FALSE], raised |-> FALSE]
    ELSE [hooks |-> h, raised |-> TRUE]

(* the calls of a method body, in order, up to the first that raises *)
RECURSIVE RemoveEach(_, _)
RemoveEach(h, targets) ==
    IF targets = <<>> THEN [hooks |-> h, raised |-> FALSE]
    ELSE LET r == TorchRemoveWeightNorm(h, Head(targets))
         IN  IF r.raised THEN r ELSE RemoveEach(r.hooks, Tail(targets))

ResBlockTargetsConvs1Only(c, b) ==
    [n \in 1..Len(Dilations(c, b[3])) |-> <<"convs1", b[2], b[3], n>>]

(* ResBlock.remove_weight_norm: c1, c2 of each pair of zip(convs1, convs2) *)
ResBlockTargets(c, b) ==
    [n \in 1..(2 * Len(Dilations(c, b[3]))) |->
        <<IF n % 2 = 1 THEN "convs1" ELSE "convs2", b[2], b[3], (n + 1) \div 2>>]

(* MRF.remove_weight_norm: remove_weight_norm(block) for every block *)
MRFTargets(c, i) ==
    [j \in 1..Len(MRFBlocks(c.resblock_kernel_sizes,
                            c.resblock_dilation_rates)) |-> <<"block", i, j>>]

(* Decoder.remove_weight_norm: pre, post, every up, every MRF *)
DecoderTargets(c) ==
    <<<<"pre">>, <<"post">>>> \o [i \in 1..NumStages(c) |-> <<"up", i>>]
        \o [i \in 1..NumStages(c) |-> <<"mrf", i>>]

FoldCall(module, targets) ==
    LET r == RemoveEach(hooks, targets)
    IN  /\ hooks' = r.hooks
        /\ lastFold' = [module |-> module, raised |-> r.raised,
                        before |-> hooks]
        /\ UNCHANGED <<cfg, res, res2, mf, f0st>>

DecoderRemoveWeightNorm == FoldCall(<<"decoder">>, DecoderTargets(cfg))

MRFRemoveWeightNorm ==
    \E i \in 1..NumStages(cfg) : FoldCall(<<"mrf", i>>, MRFTargets(cfg, i))

ResBlockRemoveWeightNorm ==
    \E b \in BlockIds(cfg) : FoldCall(b, ResBlockTargets(cfg, b))

FoldConfigs ==
    {Config(ups, rks, rdr, DefaultChannels, DefaultChannels) :
        ups \in SeqsOf({<<MaxStride, MaxStride>>}, 1, MaxStages),
        rks \in SeqsOf({MaxResKernel}, 1, MaxBlocks),
        rdr \in SeqsOf(SeqsOf({1}, 1, MaxDilLen), 1, MaxBlocks)}

InitFold ==
    /\ cfg \in FoldConfigs
    /\ res = NoCall
    /\ res2 = NoCall
    /\ hooks = FreshHooks(cfg)
    /\ lastFold = NoFoldCall
    /\ mf = NoMatchCall
    /\ f0st = NoF0Call

NextFold ==
    \/ DecoderRemoveWeightNorm
    \/ MRFRemoveWeightNorm
    \/ ResBlockRemoveWeightNorm

SpecFold == InitFold /\ [][NextFold]_vars

(***************************************************************************)
(* Properties of weight folding.                                           *)
(***************************************************************************)
Folded(cv) == ~hooks[cv]

(* the weight-normalized convolutions reachable from a module *)
ConvsOf(c, m) ==
    IF m = <<"decoder">> THEN WeightNormed(c)
    ELSE IF m[1] = "mrf"
    THEN UNION {BlockConvs(c, b) : b \in {x \in BlockIds(c) : x[2] = m[2]}}
    ELSE IF m[1] = "block" THEN BlockConvs(c, m)
    ELSE {}

(* C2: one call of Decoder.remove_weight_norm on a freshly constructed
   Decoder returns without error and leaves every weight-normalized
   convolution reachable from the Decoder folded. *)
C2_DecoderFoldFoldsEverything ==
    (lastFold.module = <<"decoder">> /\ lastFold.before = FreshHooks(cfg)) =>
        /\ ~lastFold.raised
        /\ \A cv \in WeightNormed(cfg) : Folded(cv)

(* C10 as stated: after any sequence of fold calls no folded convolution
   is unfolded again, a call that raises changes nothing, and within the
   module the last call was made on either every weight-normalized
   convolution is folded or none is. *)
C10_AllOrNothingInCalledModule ==
    lastFold.module # <<"none">> =>
        /\ \A cv \in WeightNormed(cfg) : ~lastFold.before[cv] => Folded(cv)
        /\ lastFold.raised => hooks = lastFold.before
        /\ \/ \A cv \in ConvsOf(cfg, lastFold.module) : Folded(cv)
           \/ \A cv \in ConvsOf(cfg, lastFold.module) : ~Folded(cv)

(* C10 amended: after any sequence of fold calls no folded convolution is
   unfolded again; a call that raises changes no convolution; within every
   ResBlock either every convolution is folded or none is; a call that
   returns leaves every convolution of its module folded; and a fold call on
   a ResBlock that is already folded raises and changes nothing. *)
C10_OneWayAndAtomicPerResBlock ==
    /\ \A b \in BlockIds(cfg) :
          \/ \A cv \in BlockConvs(cfg, b) : Folded(cv)
          \/ \A cv \in BlockConvs(cfg, b) : ~Folded(cv)
    /\ lastFold.module # <<"none">> =>
          /\ \A cv \in WeightNormed(cfg) : ~lastFold.before[cv] => Folded(cv)
          /\ lastFold.raised => hooks = lastFold.before
          /\ ~lastFold.raised =>
                \A cv \in ConvsOf(cfg, lastFold.module) : Folded(cv)
          /\ (/\ lastFold.module[1] = "block"
              /\ \A cv \in BlockConvs(cfg, lastFold.module) :
                    ~lastFold.before[cv])
                => (lastFold.raised /\ hooks = lastFold.before)

(* a second fold call on a folded ResBlock has raised, while another
   ResBlock of the same Decoder is still in the two-parameter form *)
C10_Witness ==
    /\ lastFold.module[1] = "block"
    /\ lastFold.raised
    /\ \A cv \in BlockConvs(cfg, lastFold.module) : Folded(cv)
    /\ \E cv \in WeightNormed(cfg) : ~Folded(cv)

(***************************************************************************)
(* Properties of forward and decode.                                       *)
(***************************************************************************)

(* a call on inputs of one time length that leaves the noise to the model *)
WellFormedCall(r) ==
    /\ r.kind # "none"
    /\ r.arg = <<>>
    /\ r.run.Tf0 = r.run.Tin
    /\ r.run.Tamp = r.run.Tin

(* C1: a forward call that completes returns a waveform of time length
   T_in times the product of the configured upsampling strides, for every
   list of (stride, kernel) pairs. *)
C1_OutputLengthIsProduct ==
    (WellFormedCall(res) /\ res.kind = "forward" /\ res.run.done) =>
        res.run.out = <<res.run.Tin * Product(cfg.deconv_strides)>>

(* C5: a forward call completes only when the content embedding, the pitch
   contour and the amplitude envelope have the same time length; any other
   call fails and returns no waveform. *)
C5_MismatchedLengthsRaise ==
    (res.kind = "forward" /\ res.arg = <<>> /\ res.run.done) =>
        (res.run.Tf0 = res.run.Tin /\ res.run.Tamp = res.run.Tin)

(* C6: in every stage of the cascade the summed MRF output is divided by
   the number of ResBlocks the stage's MRF contains, for every configuration
   of resblock_kernel_sizes and resblock_dilation_rates. *)
C6_DividedByBlockCount ==
    res.kind # "none" =>
        \A i \in 1..Len(res.run.stages) :
            res.run.stages[i].div = res.run.stages[i].n

(* C7: every dilated convolution of a ResBlock that returns, returns the
   time length it was given, so every residual addition xt + x adds tensors of equal time
   length, for every kernel size and dilation. *)
C7_ResBlockConvKeepsLength ==
    res.kind # "none" =>
        /\ \A cv \in res.run.convs : cv[4] # Raised => cv[4] = <<cv[1]>>
        /\ \A ad \in res.run.adds : ad[1] = ad[2]

(* C8: for every latent channel width and every input on which forward
   without supplied noise completes, decode completes too and returns the
   waveform forward returns for a noise of the log-scale's shape with the
   value noise_gain * N. *)
C8_DecodeIsForwardWithScaledNoise ==
    (res.kind = "decode"
        /\ DecoderForward(cfg, InputsOf(res.run), <<>>).done) =>
            /\ res.run.done
            /\ res.run.wave =
                  DecoderForward(cfg, InputsOf(res.run),
                                 <<[c |-> cfg.input_channels,
                                    t |-> res.run.Tin,
                                    v |-> res.gain * res.run.draw]>>).wave

(* C3: decode with noise_gain = 0 is deterministic: whatever each of two
   runs on the same model and inputs draws, the noise handed to forward is
   zero, the sampled latent is the latent mean, and both runs end the same
   way with the same waveform. *)
C3_DecodeGainZeroDeterministic ==
    (res.kind = "decode" /\ res.gain = 0) =>
        /\ res.run.noise.v = 0
        /\ res.run.z \in {<<>>, <<res.run.mu>>}
        /\ res.run.done => res.run.z = <<res.run.mu>>
        /\ res2.kind = "decode" =>
              /\ res2.run.noise.v = 0
              /\ res2.run.done = res.run.done
              /\ res2.run.wave = res.run.wave

(* two completed decode runs with gain 0 that drew different non-zero noise
   under a log-scale whose exponential is not 1 *)
C3_Witness ==
    /\ res.kind = "decode" /\ res.gain = 0 /\ res.run.done
    /\ res2.kind = "decode" /\ res2.run.done
    /\ res.run.draw # 0 /\ res2.run.draw # 0
    /\ res.run.draw # res2.run.draw
    /\ res.run.sigma > 0

(***************************************************************************)
(* match_features(source, reference, k, alpha) on one element of the       *)
(* batch.  source and reference are sequences of timesteps, each timestep  *)
(* a vector of two integer components; arithmetic is exact.  The mean of   *)
(* the k chosen reference vectors is kept as its numerator over the        *)
(* denominator k.                                                          *)
(***************************************************************************)
Dot(a, b) == a[1] * b[1] + a[2] * b[2]

Abs(n) == IF n < 0 THEN 0 - n ELSE n

(* cos_sims[t][i] >= cos_sims[t][j] for the source vector a = source[t] and
   the reference vectors b, c: (a/|a|).(b/|b|) >= (a/|a|).(c/|c|) *)
CosGeq(a, b, c) ==
    Dot(a, b) * Abs(Dot(a, b)) * Dot(c, c)
        >= Dot(a, c) * Abs(Dot(a, c)) * Dot(b, b)

(* torch.topk(cos_sims, k, dim=2).indices for one source timestep: k indices
   of the largest similarities in descending order; which of several equal
   similarities comes first is left to the implementation *)
TopK(a, reference, k) ==
    {ix \in [1..k -> 1..Len(reference)] :
        /\ \A i, j \in 1..k : i < j =>
              /\ ix[i] # ix[j]
              /\ CosGeq(a, reference[ix[i]], reference[ix[j]])
        /\ \A i \in 1..k : \A o \in 1..Len(reference) :
              (\A j \in 1..k : ix[j] # o) =>
                  CosGeq(a, reference[ix[i]], reference[o])}

RECURSIVE SumVectors(_, _)
SumVectors(reference, ix) ==
    IF ix = <<>> THEN <<0, 0>>
    ELSE LET v == reference[Head(ix)]
             r == SumVectors(reference, Tail(ix))
         IN  <<v[1] + r[1], v[2] + r[2]>>

(* result * (1 - alpha) + input_data * alpha for one timestep, times k *)
Blend(sum, input, k, alpha) ==
    <<sum[1] * (1 - alpha) + k * input[1] * alpha,
      sum[2] * (1 - alpha) + k * input[2] * alpha>>

Vectors == {v \in (0..MaxComp) \X (0..MaxComp) : v # <<0, 0>>}

Batches == SeqsOf(Vectors, 1, MaxLen)

MatchFeatures ==
    /\ mf = NoMatchCall
    /\ \E source \in Batches, reference \in Batches, k \in 1..MaxK,
          alpha \in {0, 1} :
        IF k > Len(reference)
        THEN mf' = [source |-> source, reference |-> reference, k |-> k,
                    alpha |-> alpha, done |-> FALSE, raised |-> TRUE,
                    num |-> <<>>]
        ELSE \E best \in [1..Len(source) -> [1..k -> 1..Len(reference)]] :
               /\ \A t \in 1..Len(source) :
                     best[t] \in TopK(source[t], reference, k)
               /\ mf' = [source |-> source, reference |-> reference, k |-> k,
                         alpha |-> alpha, done |-> TRUE, raised |-> FALSE,
                         num |-> [t \in 1..Len(source) |->
                                    Blend(SumVectors(reference, best[t]),
                                          source[t], k, alpha)]]
    /\ UNCHANGED <<cfg, res, res2, hooks, lastFold, f0st>>

MatchReturn ==
    /\ mf # NoMatchCall
    /\ mf' = NoMatchCall
    /\ UNCHANGED <<cfg, res, res2, hooks, lastFold, f0st>>

InitMatch ==
    /\ cfg = DefaultConfig
    /\ res = NoCall
    /\ res2 = NoCall
    /\ hooks = <<>>
    /\ lastFold = NoFoldCall
    /\ mf = NoMatchCall
    /\ f0st = NoF0Call

NextMatch == MatchFeatures \/ MatchReturn

SpecMatch == InitMatch /\ [][NextMatch]_vars

(* C4: match_features with k = 1, alpha = 0 and reference identical to
   source returns the source unchanged, for every source of non-zero
   vectors. *)
C4_SelfMatchReturnsSource ==
    (mf.done /\ mf.k = 1 /\ mf.alpha = 0 /\ mf.reference = mf.source) =>
        mf.num = mf.source

(***************************************************************************)
(* compute_f0(wf, sample_rate, segment_size, f0_min, f0_max).  wf has ndim *)
(* axes; a 2-D wf holds rows waveforms of len samples.  runs lists the     *)
(* calls of the pitch tracker pw.dio with the sample rate and the bounds   *)
(* each was given; out lists, per waveform, the number of pitch values     *)
(* returned.                                                               *)
(***************************************************************************)
(* the wf.ndim == 1 branch: F.interpolate to wf.shape[0] // segment_size
   values raises for an output size of 0 *)
ComputeF0Of1D(len, sample_rate, segment_size, f0_min, f0_max) ==
    [runs |-> <<[fs |-> sample_rate, f0_floor |-> f0_min,
                 f0_ceil |-> f0_max]>>,
     raised |-> len \div segment_size = 0,
     out |-> IF len \div segment_size = 0 THEN <<>>
             ELSE <<len \div segment_size>>]

(* the call the wf.ndim == 2 branch makes for one row:
   compute_f0(wave[0], sample_rate, segment_size) *)
ComputeF0OfRow(len, sample_rate, segment_size, f0_min, f0_max) ==
    ComputeF0Of1D(len, sample_rate, segment_size, DefaultF0Min, DefaultF0Max)

(* the wf.ndim == 2 branch: the rows in order, up to the first that raises *)
RECURSIVE ComputeF0OfRows(_, _, _, _, _, _)
ComputeF0Append(r, rest) ==
    [runs |-> r.runs \o rest.runs, raised |-> rest.raised,
     out |-> IF rest.raised THEN <<>> ELSE r.out \o rest.out]

ComputeF0OfRows(rows, len, sample_rate, segment_size, f0_min, f0_max) ==
    IF rows = 0 THEN [runs |-> <<>>, raised |-> FALSE, out |-> <<>>]
    ELSE IF len \div segment_size = 0
    THEN ComputeF0OfRow(len, sample_rate, segment_size, f0_min, f0_max)
    ELSE ComputeF0Append(
            ComputeF0OfRow(len, sample_rate, segment_size, f0_min, f0_max),
            ComputeF0OfRows(rows - 1, len, sample_rate, segment_size, f0_min,
                            f0_max))

compute_f0(ndim, rows, len, sample_rate, segment_size, f0_min, f0_max) ==
    IF ndim = 1
    THEN ComputeF0Of1D(len, sample_rate, segment_size, f0_min, f0_max)
    ELSE ComputeF0OfRows(rows, len, sample_rate, segment_size, f0_min, f0_max)

F0Result(ndim, rows, len, sample_rate, segment_size, f0_min, f0_max, r) ==
    [ndim |-> ndim, rows |-> rows, len |-> len, sample_rate |-> sample_rate,
     segment_size |-> segment_size, f0_min |-> f0_min, f0_max |-> f0_max,
     done |-> ~r.raised, raised |-> r.raised, runs |-> r.runs, out |-> r.out]

ComputeF0 ==
    /\ f0st = NoF0Call
    /\ \E ndim \in {1, 2}, rows \in 1..MaxRows,
          segment_size \in {DefaultSegmentSize, SmallSegment},
          frames \in 0..MaxFrames, extra \in {0, 1}, i, j, m \in 0..MaxShift :
        /\ ndim = 1 => rows = 1
        /\ f0st' = F0Result(ndim, rows, frames * segment_size + extra,
                      DefaultSampleRate * (m + 1), segment_size,
                      DefaultF0Min + i, DefaultF0Max - j,
                      compute_f0(ndim, rows, frames * segment_size + extra,
                                 DefaultSampleRate * (m + 1), segment_size,
                                 DefaultF0Min + i, DefaultF0Max - j))
    /\ UNCHANGED <<cfg, res, res2, hooks, lastFold, mf>>

F0Return ==
    /\ f0st # NoF0Call
    /\ f0st' = NoF0Call
    /\ UNCHANGED <<cfg, res, res2, hooks, lastFold, mf>>

InitF0 ==
    /\ cfg = DefaultConfig
    /\ res = NoCall
    /\ res2 = NoCall
    /\ hooks = <<>>
    /\ lastFold = NoFoldCall
    /\ mf = NoMatchCall
    /\ f0st = NoF0Call

NextF0 == ComputeF0 \/ F0Return

SpecF0 == InitF0 /\ [][NextF0]_vars

(* C9: compute_f0 runs the pitch tracker with the caller's f0_min, f0_max
   and sample_rate on every waveform it processes, a single 1-D waveform as
   well as each row of a 2-D batch, and returns floor(length / segment_size)
   pitch values per waveform. *)
C9_TrackerGetsCallersBounds ==
    f0st.done =>
        /\ Len(f0st.runs) = f0st.rows
        /\ \A n \in 1..Len(f0st.runs) :
              /\ f0st.runs[n].fs = f0st.sample_rate
              /\ f0st.runs[n].f0_floor = f0st.f0_min
              /\ f0st.runs[n].f0_ceil = f0st.f0_max
        /\ Len(f0st.out) = f0st.rows
        /\ \A n \in 1..Len(f0st.out) :
              f0st.out[n] = f0st.len \div f0st.segment_size

====
